---- MODULE Spec2Model ----
(***************************************************************************)
(* Model of storage-proofs/src/circuit/private_drgporep.rs:                *)
(*   PrivateDrgPoRepCompound::generate_public_inputs, ::circuit and        *)
(*   PrivateDrgPoRepCircuit::synthesize.                                   *)
(* Field elements of Fr are drawn from a small sample 0..FrSample-1; the   *)
(* bit widths (CAPACITY, NUM_BITS, the 256-bit padding and the 32-byte     *)
(* representation) keep their real values.                                 *)
(***************************************************************************)
EXTENDS Integers, Sequences, FiniteSets, TLC

\* ------------------------------------------------------------------ bounds
MaxChallenges == 2

\* ------------------------------------------------------- program constants
CAPACITY == 254
NUM_BITS == 255
PadWidth == 256
FrBytes == 32
LambdaBytes == 32
LambdaBits == 256
FixtureDegree == 6
FixtureNodes == 12
FixtureBigNodes == 33554432
FrSample == 7

Fr == 0 .. (FrSample - 1)

\* -------------------------------------------------------------- Option<T>
Some(x) == <<x>>
None == <<>>
IsSome(o) == Len(o) = 1
Unwrap(o) == o[1]

Min(a, b) == IF a < b THEN a ELSE b

\* A sequence written out element by element (Vec::collect).
Collect(s) == s \o <<>>

RECURSIVE Pow(_, _)
Pow(b, n) == IF n = 0 THEN 1 ELSE b * Pow(b, n - 1)

\* ----------------------------------------------------- bytes and bit strings
\* fr32::fr_into_bytes: the 32-byte little-endian representation.  Sample
\* values are below 2^24, so every byte past the third is zero.
fr_into_bytes(v) ==
  Collect([b \in 1 .. FrBytes |-> IF b <= 3 THEN (v \div Pow(256, b - 1)) % 256 ELSE 0])

\* util::bytes_into_bits: eight bits per byte, least significant first.
bytes_into_bits(bytes) ==
  Collect([k \in 1 .. (8 * Len(bytes)) |->
             (bytes[((k - 1) \div 8) + 1] \div Pow(2, (k - 1) % 8)) % 2 = 1])

\* The field element whose little-endian bits are `bits` (bits : Seq(BOOLEAN)).
RECURSIVE BitsSum(_, _, _)
BitsSum(bits, lo, hi) ==
  IF lo > hi THEN 0
  ELSE IF lo = hi THEN (IF bits[lo] THEN Pow(2, lo - 1) ELSE 0)
  ELSE BitsSum(bits, lo, (lo + hi) \div 2) + BitsSum(bits, ((lo + hi) \div 2) + 1, hi)

BitsToFr(bits) == BitsSum(bits, 1, Len(bits))

\* bits.chunks(CAPACITY)
Chunks(bits) ==
  Collect([c \in 1 .. ((Len(bits) + CAPACITY - 1) \div CAPACITY) |->
             SubSeq(bits, (c - 1) * CAPACITY + 1, Min(c * CAPACITY, Len(bits)))])

\* multipack::compute_multipacking: one field element per CAPACITY-bit chunk.
compute_multipacking(bits) ==
  LET chunks == Chunks(bits)
  IN Collect([c \in 1 .. Len(chunks) |-> BitsToFr(chunks[c])])

\* A circuit Boolean: an allocated bit (value possibly unknown) or a constant.
AllocatedBit(opt) == [const |-> FALSE, val |-> opt]
ConstantBit(b) == [const |-> TRUE, val |-> Some(b)]

AllKnownBits(bs) == \A k \in 1 .. Len(bs) : IsSome(bs[k].val)
BitValues(bs) == Collect([k \in 1 .. Len(bs) |-> Unwrap(bs[k].val)])

\* util::bytes_into_boolean_vec(cs, value, size): with bytes present one
\* allocated bit per bit of the bytes; with no bytes `size` unassigned bits.
bytes_into_boolean_vec(value, size) ==
  IF IsSome(value)
  THEN LET bits == bytes_into_bits(Unwrap(value))
       IN Collect([k \in 1 .. Len(bits) |-> AllocatedBit(Some(bits[k]))])
  ELSE Collect([k \in 1 .. size |-> AllocatedBit(None)])

\* boolean::field_into_boolean_vec_le: NUM_BITS allocated bits, little-endian.
field_into_boolean_vec_le(val) ==
  Collect([k \in 1 .. NUM_BITS |->
     IF IsSome(val)
     THEN AllocatedBit(Some(IF k <= 24 THEN (Unwrap(val) \div Pow(2, k - 1)) % 2 = 1
                                       ELSE FALSE))
     ELSE AllocatedBit(None)])

\* multipack::pack_into_inputs: one public input per CAPACITY-bit chunk; its
\* value is known only when every bit of the chunk is.
pack_into_inputs(bs) ==
  LET chunks == Chunks(bs)
  IN Collect([c \in 1 .. Len(chunks) |->
                IF AllKnownBits(chunks[c])
                THEN Some(BitsToFr(BitValues(chunks[c])))
                ELSE None])

\* ------------------------------------------------ sub-circuits (arithmetic)
\* The Merkle hash of two children at a tree level.
Hash(l, r, level) == (3 * l + 5 * r + level + 1) % FrSample

\* Hash-chain a leaf up its authentication path (entries <<sibling, is_right>>).
RECURSIVE PathRoot(_, _, _)
PathRoot(cur, path, level) ==
  IF level > Len(path) THEN cur
  ELSE PathRoot(IF path[level][2]
                THEN Hash(path[level][1], cur, level - 1)
                ELSE Hash(cur, path[level][1], level - 1),
                path, level + 1)

\* sloth::decode: `iters` rounds of c -> c^5 - key over the field.
RECURSIVE Decode(_, _, _)
Decode(key, c, iters) ==
  IF iters = 0 THEN c
  ELSE Decode(key, ((c * c * c * c * c) + FrSample - key) % FrSample, iters - 1)

\* The inverse of Decode, used by vanilla replication.
Encode(key, d, iters) == CHOOSE c \in Fr : Decode(key, c, iters) = d

\* circuit::kdf::kdf over plain bit strings: identity bits, then each parent's
\* bits in order, mixed with the degree m.
RECURSIVE KdfFold(_, _, _)
KdfFold(acc, parents, k) ==
  IF k > Len(parents) THEN acc
  ELSE KdfFold((3 * acc + BitsToFr(parents[k]) + k) % FrSample, parents, k + 1)

Kdf(id_bits, parents, m) ==
  KdfFold((BitsToFr(id_bits) + m + 1) % FrSample, parents, 1)

\* --------------------------------------------------- graph and vanilla scheme
\* drgraph::graph_height: the number of levels above the leaves.
RECURSIVE graph_height(_)
graph_height(n) == IF n <= 1 THEN 0 ELSE 1 + graph_height((n + 1) \div 2)

\* Graph::parents: `degree` parents, in a fixed order, each with a smaller
\* index than the node (node 0 has itself).
Parents(g, v) ==
  Collect([k \in 1 .. g.degree |->
             IF v = 0 THEN 0 ELSE ((k - 1) * (g.seed + 1) + v - 1) % v])

\* The data to replicate: one field element per node.
DataOf(g) == Collect([v \in 1 .. g.nodes |-> (2 * v + g.seed) % FrSample])

FrBits(v) == bytes_into_bits(fr_into_bytes(v))

\* DrgPoRep::replicate: node v is encoded under the key derived from the
\* replica identity and the replica values of its parents.
\* (Node 0, which has no earlier node, takes zeroes for its parents.)
RECURSIVE ReplicateUpTo(_, _, _, _)
ReplicateUpTo(id, pp, data, n) ==
  IF n = 0 THEN <<>>
  ELSE LET done == ReplicateUpTo(id, pp, data, n - 1)
           v == n - 1
           ps == Parents(pp.graph, v)
           pbits == Collect([k \in 1 .. Len(ps) |->
                               IF v = 0 THEN FrBits(0) ELSE FrBits(done[ps[k] + 1])])
       IN Append(done, Encode(Kdf(FrBits(id), pbits, pp.graph.degree), data[v + 1],
                              pp.sloth_iter))

Replicate(id, pp, data) == ReplicateUpTo(id, pp, data, pp.graph.nodes)

\* A node of the Merkle tree over `arr` (padded with zero leaves).
RECURSIVE TreeNode(_, _, _)
TreeNode(arr, level, idx) ==
  IF level = 0 THEN (IF idx < Len(arr) THEN arr[idx + 1] ELSE 0)
  ELSE Hash(TreeNode(arr, level - 1, 2 * idx),
            TreeNode(arr, level - 1, 2 * idx + 1), level - 1)

\* The Merkle proof of leaf v: <<sibling, is_right>> per level, and the root.
MerkleProof(arr, h, v) ==
  [path |-> Collect([l \in 1 .. h |->
               LET idx == v \div Pow(2, l - 1)
               IN <<TreeNode(arr, l - 1, IF idx % 2 = 1 THEN idx - 1 ELSE idx + 1),
                    idx % 2 = 1>>]),
   root |-> TreeNode(arr, h, 0)]

DataProof(arr, h, v) == [data |-> arr[v + 1], proof |-> MerkleProof(arr, h, v)]

\* DrgPoRep::prove: per challenge the replica node, its parents and the data
\* node, each with its Merkle proof.
Prove(pp, pub, replica, data) ==
  LET h == graph_height(pp.graph.nodes)
      cs == pub.challenges
  IN [replica_nodes |-> [i \in 1 .. Len(cs) |-> DataProof(replica, h, cs[i])],
      replica_parents |->
        [i \in 1 .. Len(cs) |->
           [k \in 1 .. pp.graph.degree |->
              <<Parents(pp.graph, cs[i])[k],
                DataProof(replica, h, Parents(pp.graph, cs[i])[k])>>]],
      nodes |-> [i \in 1 .. Len(cs) |-> DataProof(data, h, cs[i])]]

\* MerkleProof::as_options
as_options(proof) == [l \in 1 .. Len(proof.path) |-> Some(proof.path[l])]

\* ------------------------------------------------- PrivateDrgPoRepCompound
\* Mutant: the roots are taken from the last challenge's proofs.
circuit_last_roots(public_inputs, proof, public_params) ==
  [lambda |-> public_params.lambda,
   sloth_iter |-> public_params.sloth_iter,
   replica_nodes |->
     [i \in 1 .. Len(proof.replica_nodes) |-> Some(proof.replica_nodes[i].data)],
   replica_nodes_paths |->
     [i \in 1 .. Len(proof.replica_nodes) |-> as_options(proof.replica_nodes[i].proof)],
   replica_root |-> Some(proof.replica_nodes[Len(proof.replica_nodes)].proof.root),
   replica_parents |->
     [i \in 1 .. Len(proof.replica_parents) |->
        [k \in 1 .. Len(proof.replica_parents[i]) |->
           Some(proof.replica_parents[i][k][2].data)]],
   replica_parents_paths |->
     [i \in 1 .. Len(proof.replica_parents) |->
        [k \in 1 .. Len(proof.replica_parents[i]) |->
           as_options(proof.replica_parents[i][k][2].proof)]],
   data_nodes |-> [i \in 1 .. Len(proof.nodes) |-> Some(proof.nodes[i].data)],
   data_nodes_paths |->
     [i \in 1 .. Len(proof.nodes) |-> as_options(proof.nodes[i].proof)],
   data_root |-> Some(proof.nodes[Len(proof.nodes)].proof.root),
   replica_id |-> Some(public_inputs.replica_id),
   degree |-> public_params.graph.degree]

\* circuit(public_inputs, proof, public_params, engine_params)
circuit(public_inputs, proof, public_params) ==
  [lambda |-> public_params.lambda,
   sloth_iter |-> public_params.sloth_iter,
   replica_nodes |->
     [i \in 1 .. Len(proof.replica_nodes) |-> Some(proof.replica_nodes[i].data)],
   replica_nodes_paths |->
     [i \in 1 .. Len(proof.replica_nodes) |-> as_options(proof.replica_nodes[i].proof)],
   replica_root |-> Some(proof.replica_nodes[1].proof.root),
   replica_parents |->
     [i \in 1 .. Len(proof.replica_parents) |->
        [k \in 1 .. Len(proof.replica_parents[i]) |->
           Some(proof.replica_parents[i][k][2].data)]],
   replica_parents_paths |->
     [i \in 1 .. Len(proof.replica_parents) |->
        [k \in 1 .. Len(proof.replica_parents[i]) |->
           as_options(proof.replica_parents[i][k][2].proof)]],
   data_nodes |-> [i \in 1 .. Len(proof.nodes) |-> Some(proof.nodes[i].data)],
   data_nodes_paths |->
     [i \in 1 .. Len(proof.nodes) |-> as_options(proof.nodes[i].proof)],
   data_root |-> Some(proof.nodes[1].proof.root),
   replica_id |-> Some(public_inputs.replica_id),
   degree |-> public_params.graph.degree]

\* private_por::challenge_into_auth_path_bits
challenge_into_auth_path_bits(challenge, leaves) ==
  Collect([l \in 1 .. graph_height(leaves) |-> (challenge \div Pow(2, l - 1)) % 2 = 1])

\* PrivatePoRCompound::generate_public_inputs: the packed direction bits.
por_generate_public_inputs(por_pub_inputs, por_pub_params) ==
  compute_multipacking(
    challenge_into_auth_path_bits(por_pub_inputs.challenge, por_pub_params.leaves))

RECURSIVE Concat(_)
Concat(ss) == IF ss = <<>> THEN <<>> ELSE Head(ss) \o Concat(Tail(ss))

\* Mutant: the parents' contributions in the reverse of the graph's order.
challenge_inputs_parents_reversed(challenge, packed_replica_id, pub_params, por_pub_params) ==
  LET parents == Parents(pub_params.graph, challenge)
      por(node) == por_generate_public_inputs(
                     [commitment |-> None, challenge |-> node], por_pub_params)
  IN packed_replica_id
       \o por(challenge)
       \o Concat([n \in 1 .. Len(parents) |-> por(parents[Len(parents) + 1 - n])])
       \o por(challenge)

\* The block generate_public_inputs builds for one challenge (the closure).
challenge_inputs(challenge, packed_replica_id, pub_params, por_pub_params) ==
  LET por_nodes == <<challenge>> \o Parents(pub_params.graph, challenge)
      por(node) == por_generate_public_inputs(
                     [commitment |-> None, challenge |-> node], por_pub_params)
  IN packed_replica_id
       \o Concat([n \in 1 .. Len(por_nodes) |-> por(por_nodes[n])])
       \o por(challenge)

\* generate_public_inputs(pub_in, pub_params), past the assertion on tau.
generate_public_inputs(pub_in, pub_params) ==
  LET id_bits == bytes_into_bits(fr_into_bytes(pub_in.replica_id))
      packed_replica_id == compute_multipacking(SubSeq(id_bits, 1, CAPACITY))
      por_pub_params == [lambda |-> pub_params.lambda,
                         leaves |-> pub_params.graph.nodes]
  IN Concat([i \in 1 .. Len(pub_in.challenges) |->
               challenge_inputs(pub_in.challenges[i], packed_replica_id,
                                pub_params, por_pub_params)])

\* ------------------------------------------------------------------- state
VARIABLES
  pub_in,           \* drgporep::PublicInputs: replica_id, challenges, tau
  pub_params,       \* drgporep::PublicParams: lambda, sloth_iter, graph
  mode,             \* "prove": the constraint system evaluates witness values;
                    \* "setup": it records structure only
  gpi_status, gpi,  \* outcome and result of generate_public_inputs
  proof,            \* the vanilla proof handed to circuit()
  entry,            \* how the circuit was built: "circuit" or "direct"
  w,                \* the PrivateDrgPoRepCircuit being synthesized
  pc, i, j,         \* position in synthesize: step, challenge, parent
  cs,               \* what the constraint system has received, in order
  status,           \* "running", "Ok", "AssignmentMissing" or a panic
  replica_id_bits, parents_bits, key, decoded, expected   \* locals

vars == <<pub_in, pub_params, mode, gpi_status, gpi, proof, entry, w, pc, i, j,
          cs, status, replica_id_bits, parents_bits, key, decoded, expected>>

locals == <<replica_id_bits, parents_bits, key, decoded, expected>>
inputs == <<pub_in, pub_params, mode>>

\* ------------------------------------------------------------------ inputs
\* Replica identity, lambda (as the tests pass it: in bytes, or in bits) and
\* sloth rounds; every pair of values of two of them occurs together.
PublicSamples ==
  {[id |-> 1, lambda |-> LambdaBytes, iter |-> 1],
   [id |-> 6, lambda |-> LambdaBytes, iter |-> 2],
   [id |-> 1, lambda |-> LambdaBits, iter |-> 2],
   [id |-> 6, lambda |-> LambdaBits, iter |-> 1]}
\* The graphs of the tests (2 nodes of degree 2; FixtureNodes of FixtureDegree)
\* and two in between.
Graphs ==
  {[nodes |-> 2, degree |-> 2, seed |-> 1], [nodes |-> 4, degree |-> 1, seed |-> 1],
   [nodes |-> 4, degree |-> 2, seed |-> 1],
   [nodes |-> FixtureNodes, degree |-> FixtureDegree, seed |-> 1]}

\* Up to MaxChallenges challenges: consecutive nodes from a first one, wrapping
\* around past the last node and never challenging node 0.
ChallengeLists(g) ==
  {Collect([k \in 1 .. len |-> ((first + k - 2) % (g.nodes - 1)) + 1]) :
     first \in {2, g.nodes - 1} \cap (1 .. (g.nodes - 1)), len \in 0 .. MaxChallenges}

EmptyProof == [replica_nodes |-> <<>>, replica_parents |-> <<>>, nodes |-> <<>>]

EmptyCircuit ==
  [lambda |-> 0, sloth_iter |-> 0, replica_nodes |-> <<>>,
   replica_nodes_paths |-> <<>>, replica_root |-> None, replica_parents |-> <<>>,
   replica_parents_paths |-> <<>>, data_nodes |-> <<>>, data_nodes_paths |-> <<>>,
   data_root |-> None, replica_id |-> None, degree |-> 0]

\* The proof of an honest replicate + prove run for the public data.
HonestProof(pub, pp) ==
  LET data == DataOf(pp.graph)
      replica == Replicate(pub.replica_id, pp, data)
  IN Prove(pp, pub, replica, data)

\* The same proof with the last challenge's Merkle proofs claiming other roots.
ForeignRoots(p) ==
  LET n == Len(p.nodes)
      bump(dp, d) == [dp EXCEPT !.proof.root = (@ + d) % FrSample]
  IN IF n = 0 THEN p
     ELSE [p EXCEPT !.replica_nodes[n] = bump(@, 1), !.nodes[n] = bump(@, 2)]

Proofs(pub, pp) == {HonestProof(pub, pp), ForeignRoots(HonestProof(pub, pp))}

Init ==
  /\ \E s \in PublicSamples, g \in Graphs, t \in {None, Some(3)},
        m \in {"prove", "setup"} :
       \E ch \in ChallengeLists(g) :
         /\ pub_in = [replica_id |-> s.id, challenges |-> ch, tau |-> t]
         /\ pub_params = [lambda |-> s.lambda, sloth_iter |-> s.iter, graph |-> g]
         /\ mode = m
  /\ gpi_status = "none" /\ gpi = <<>>
  /\ proof = EmptyProof /\ entry = "none" /\ w = EmptyCircuit
  /\ pc = "start" /\ i = 0 /\ j = 0
  /\ cs = <<>> /\ status = "running"
  /\ replica_id_bits = <<>> /\ parents_bits = <<>>
  /\ key = None /\ decoded = None /\ expected = None

\* ------------------------------------------- circuits handed to synthesize
Bump(o) == Some((Unwrap(o) + 1) % FrSample)

\* The same circuit with every witness value unassigned.
AllUnknown(b) ==
  LET blank(path) == [l \in 1 .. Len(path) |-> None]
  IN [b EXCEPT
        !.replica_nodes = [c \in 1 .. Len(@) |-> None],
        !.replica_nodes_paths = [c \in 1 .. Len(@) |-> blank(@[c])],
        !.replica_root = None,
        !.replica_parents = [c \in 1 .. Len(@) |-> [k \in 1 .. Len(@[c]) |-> None]],
        !.replica_parents_paths =
           [c \in 1 .. Len(@) |-> [k \in 1 .. Len(@[c]) |-> blank(@[c][k])]],
        !.data_nodes = [c \in 1 .. Len(@) |-> None],
        !.data_nodes_paths = [c \in 1 .. Len(@) |-> blank(@[c])],
        !.data_root = None,
        !.replica_id = None]

\* Circuits that differ from b in one value.
ValueVariants(b) ==
  {[b EXCEPT !.replica_root = Bump(@)], [b EXCEPT !.data_root = Bump(@)],
   [b EXCEPT !.replica_id = Bump(@)]}
  \cup UNION {
    {[b EXCEPT !.data_nodes[c] = Bump(@)],
     [b EXCEPT !.replica_nodes[c] = Bump(@)],
     [b EXCEPT !.replica_parents[c][1] = Bump(@)],
     [b EXCEPT !.replica_nodes_paths[c][1] = Some(<<Unwrap(@)[1], ~Unwrap(@)[2]>>)]}
    : c \in 1 .. Len(b.data_nodes)}

\* Circuits with unassigned values.
UnknownVariants(b) ==
  {AllUnknown(b)} \cup {[b EXCEPT !.data_nodes[c] = None] : c \in 1 .. Len(b.data_nodes)}

\* Circuits whose vectors of challenge c do not fit together.
ShapeVariants(b) ==
  UNION {
    {[b EXCEPT !.data_nodes_paths[c] = Tail(@)],
     [b EXCEPT !.replica_parents[c] = Tail(@)],
     [b EXCEPT !.replica_parents_paths[c] = Tail(@)],
     [b EXCEPT !.replica_parents_paths[c][1] = Append(@, Some(<<0, FALSE>>))],
     [b EXCEPT !.replica_parents[c] = Append(@, @[1]),
               !.replica_parents_paths[c] = Append(@, @[1])]}
    : c \in 1 .. Len(b.data_nodes)}

\* The circuits of the two synthesis tests: one challenge, FixtureDegree
\* parents, every path as long as the tree over `nodes` leaves is high.
Fixture(pp, nodes) ==
  LET path == [l \in 1 .. graph_height(nodes) |-> Some(<<2, FALSE>>)]
  IN [lambda |-> pp.lambda, sloth_iter |-> pp.sloth_iter,
      replica_nodes |-> <<Some(1)>>, replica_nodes_paths |-> <<path>>,
      replica_root |-> Some(3),
      replica_parents |-> <<[k \in 1 .. FixtureDegree |-> Some(4)]>>,
      replica_parents_paths |-> <<[k \in 1 .. FixtureDegree |-> path]>>,
      data_nodes |-> <<Some(5)>>, data_nodes_paths |-> <<path>>,
      data_root |-> Some(6), replica_id |-> Some(1), degree |-> FixtureDegree]

Fixtures(pp) == {Fixture(pp, FixtureBigNodes), AllUnknown(Fixture(pp, FixtureBigNodes))}

\* A circuit over no challenge at all.
NoChallenge(pub, pp) ==
  [EmptyCircuit EXCEPT !.lambda = pp.lambda, !.sloth_iter = pp.sloth_iter,
                       !.replica_root = Some(0), !.data_root = Some(0),
                       !.replica_id = Some(pub.replica_id),
                       !.degree = pp.graph.degree]

\* The circuits a direct call is made with; those that differ from the honest
\* one in a value only go to a constraint system that evaluates values.
DirectCircuits(pub, pp, m) ==
  IF Len(pub.challenges) = 0 THEN {NoChallenge(pub, pp), AllUnknown(NoChallenge(pub, pp))}
  ELSE LET b == circuit(pub, HonestProof(pub, pp), pp)
       IN {b} \cup (IF m = "prove" THEN ValueVariants(b) ELSE {})
            \cup UnknownVariants(b) \cup ShapeVariants(b)
            \cup (IF Len(pub.challenges) = 1 /\ pp.graph.degree = FixtureDegree
                  THEN Fixtures(pp) ELSE {})

\* ------------------------------------------------------ constraint system
\* One record per step: its namespace, challenge and parent index, the values
\* handed to it, what it exposes as public inputs, the size that fixes how many
\* variables and constraints it allocates, and whether the assigned values
\* satisfy its constraints.
Ev(step, ch, k, args, ins, size, sat) ==
  [step |-> step, ch |-> ch, k |-> k, args |-> args, inputs |-> ins, size |-> size,
   sat |-> sat]

\* A value closure is evaluated only by a constraint system that assigns values.
Evaluated(m, opt) == IF m = "prove" THEN opt ELSE None
InputVals(m, opts) == [x \in 1 .. Len(opts) |-> Evaluated(m, opts[x])]

\* AllocatedNum::alloc(cs, || v.ok_or_else(|| AssignmentMissing)) fails exactly
\* when the closure is evaluated and the value is absent.
AssignmentMissing(m, opt) == m = "prove" /\ ~IsSome(opt)

\* PrivatePoRCircuit::synthesize(cs, params, value, auth_path, root): hash the
\* leaf up the path, expose the packed direction bits, equate with the root.
PoRMissing(m, value, path, root) ==
  \/ AssignmentMissing(m, value)
  \/ \E l \in 1 .. Len(path) : AssignmentMissing(m, path[l])
  \/ AssignmentMissing(m, root)

PoREvent(m, step, ch, k, value, path, root) ==
  LET bits == Collect([l \in 1 .. Len(path) |->
                 AllocatedBit(IF IsSome(path[l]) THEN Some(Unwrap(path[l])[2]) ELSE None)])
      known == IsSome(value) /\ IsSome(root) /\ \A l \in 1 .. Len(path) : IsSome(path[l])
  IN Ev(step, ch, k, <<value, root>>, InputVals(m, pack_into_inputs(bits)), Len(path),
        (m = "prove" /\ known) =>
           PathRoot(Unwrap(value), Collect([l \in 1 .. Len(path) |-> Unwrap(path[l])]), 1)
             = Unwrap(root))

\* ------------------------------------------------------------------ actions
Emit(ev) == cs' = Append(cs, ev)

Halt(st) == /\ status' = st
            /\ pc' = "halt"
            /\ UNCHANGED <<i, j, cs, locals>>

\* Mutant: generate_public_inputs without the assertion on tau.
GeneratePublicInputs_NoAssert ==
  /\ pc = "start"
  /\ gpi_status' = "returned"
  /\ gpi' = generate_public_inputs(pub_in, pub_params)
  /\ pc' = "build"
  /\ UNCHANGED <<inputs, proof, entry, w, i, j, cs, status, locals>>

\* generate_public_inputs: the assertion on tau, then the whole computation.
GeneratePublicInputs ==
  /\ pc = "start"
  /\ IF IsSome(pub_in.tau)
     THEN /\ gpi_status' = "panic" /\ gpi' = <<>> /\ pc' = "halt"
     ELSE /\ gpi_status' = "returned"
          /\ gpi' = generate_public_inputs(pub_in, pub_params)
          /\ pc' = "build"
  /\ UNCHANGED <<inputs, proof, entry, w, i, j, cs, status, locals>>

\* circuit(): build the circuit from a vanilla proof.
Circuit ==
  /\ pc = "build"
  /\ \E p \in Proofs(pub_in, pub_params) :
       /\ proof' = p
       /\ IF Len(p.replica_nodes) = 0 \/ Len(p.nodes) = 0
          THEN /\ status' = "panic_index" /\ pc' = "halt" /\ UNCHANGED <<w, entry>>
          ELSE /\ w' = circuit(pub_in, p, pub_params)
               /\ entry' = "circuit" /\ pc' = "id_bits" /\ UNCHANGED status
  /\ UNCHANGED <<inputs, gpi_status, gpi, i, j, cs, locals>>

\* PrivateDrgPoRepCircuit::synthesize(cs, params, lambda, ...): build the
\* circuit from the caller's vectors.
DirectSynthesize ==
  /\ pc = "build"
  /\ \E c \in DirectCircuits(pub_in, pub_params, mode) : w' = c
  /\ entry' = "direct" /\ pc' = "id_bits"
  /\ UNCHANGED <<inputs, gpi_status, gpi, proof, i, j, cs, status, locals>>

\* Circuit::synthesize, the replica identity in bits.
ReplicaIdBits ==
  /\ pc = "id_bits"
  /\ LET replica_id_bytes ==
           IF IsSome(w.replica_id) THEN Some(fr_into_bytes(Unwrap(w.replica_id)))
           ELSE None
         bits == bytes_into_boolean_vec(replica_id_bytes, w.lambda)
     IN IF Len(bits) > 0 /\ AssignmentMissing(mode, w.replica_id)
        THEN Halt("AssignmentMissing")
        ELSE /\ replica_id_bits' = bits
             /\ Emit(Ev("replica_id bits", 0, 0, <<w.replica_id>>, <<>>, Len(bits), TRUE))
             /\ pc' = "pack"
             /\ UNCHANGED <<i, j, status, parents_bits, key, decoded, expected>>
  /\ UNCHANGED <<inputs, gpi_status, gpi, proof, entry, w>>

\* Mutant: every bit of the identity is packed, not the first CAPACITY.
PackReplicaId_NoSlice ==
  /\ pc = "pack"
  /\ Emit(Ev("replica_id", 0, 0, <<>>, InputVals(mode, pack_into_inputs(replica_id_bits)),
             CAPACITY, TRUE))
  /\ pc' = "loop" /\ i' = 1
  /\ UNCHANGED <<j, status, locals>>
  /\ UNCHANGED <<inputs, gpi_status, gpi, proof, entry, w>>

\* pack_into_inputs(cs, &replica_id_bits[0..CAPACITY])
PackReplicaId ==
  /\ pc = "pack"
  /\ IF Len(replica_id_bits) < CAPACITY
     THEN Halt("panic_slice")
     ELSE /\ Emit(Ev("replica_id", 0, 0, <<>>,
                     InputVals(mode, pack_into_inputs(SubSeq(replica_id_bits, 1, CAPACITY))),
                     CAPACITY, TRUE))
          /\ pc' = "loop" /\ i' = 1
          /\ UNCHANGED <<j, status, locals>>
  /\ UNCHANGED <<inputs, gpi_status, gpi, proof, entry, w>>

\* Mutant: the loop head without the path-length assertion.
NextChallenge_NoAssert ==
  /\ pc = "loop"
  /\ IF i > Len(w.data_nodes)
     THEN Halt("Ok")
     ELSE /\ pc' = "replica_por"
          /\ UNCHANGED <<i, j, cs, status, locals>>
  /\ UNCHANGED <<inputs, gpi_status, gpi, proof, entry, w>>

\* The loop head: the next challenge's vectors and the path-length assertion.
NextChallenge ==
  /\ pc = "loop"
  /\ IF i > Len(w.data_nodes)
     THEN Halt("Ok")
     ELSE IF \/ i > Len(w.replica_nodes_paths) \/ i > Len(w.replica_parents_paths)
             \/ i > Len(w.data_nodes_paths) \/ i > Len(w.replica_nodes)
             \/ i > Len(w.replica_parents)
          THEN Halt("panic_index")
          ELSE IF Len(w.data_nodes_paths[i]) # Len(w.replica_nodes_paths[i])
               THEN Halt("panic_assert")
               ELSE /\ pc' = "replica_por"
                    /\ UNCHANGED <<i, j, cs, status, locals>>
  /\ UNCHANGED <<inputs, gpi_status, gpi, proof, entry, w>>

\* The replica node's Merkle proof, against replica_root.
ReplicaNodePoR ==
  /\ pc = "replica_por"
  /\ IF PoRMissing(mode, w.replica_nodes[i], w.replica_nodes_paths[i], w.replica_root)
     THEN Halt("AssignmentMissing")
     ELSE /\ Emit(PoREvent(mode, "replica_node merkle proof", i, 0, w.replica_nodes[i],
                           w.replica_nodes_paths[i], w.replica_root))
          /\ pc' = "parent_por" /\ j' = 1
          /\ UNCHANGED <<i, status, locals>>
  /\ UNCHANGED <<inputs, gpi_status, gpi, proof, entry, w>>

\* One parent's Merkle proof, against replica_root; past the last parent, go on.
ParentPoR ==
  /\ pc = "parent_por"
  /\ IF j > Len(w.replica_parents[i])
     THEN /\ pc' = "data_por" /\ UNCHANGED <<i, j, cs, status, locals>>
     ELSE IF j > Len(w.replica_parents_paths[i])
          THEN Halt("panic_index")
          ELSE IF PoRMissing(mode, w.replica_parents[i][j],
                             w.replica_parents_paths[i][j], w.replica_root)
               THEN Halt("AssignmentMissing")
               ELSE /\ Emit(PoREvent(mode, "replica parent", i, j, w.replica_parents[i][j],
                                     w.replica_parents_paths[i][j], w.replica_root))
                    /\ j' = j + 1
                    /\ UNCHANGED <<pc, i, status, locals>>
  /\ UNCHANGED <<inputs, gpi_status, gpi, proof, entry, w>>

\* Mutant: the data node's Merkle proof checked against replica_root.
DataNodePoR_AgainstReplicaRoot ==
  /\ pc = "data_por"
  /\ IF PoRMissing(mode, w.data_nodes[i], w.data_nodes_paths[i], w.replica_root)
     THEN Halt("AssignmentMissing")
     ELSE /\ Emit(PoREvent(mode, "data node commitment", i, 0, w.data_nodes[i],
                           w.data_nodes_paths[i], w.replica_root))
          /\ pc' = "parents_bits"
          /\ UNCHANGED <<i, j, status, locals>>
  /\ UNCHANGED <<inputs, gpi_status, gpi, proof, entry, w>>

\* The data node's Merkle proof, against data_root.
DataNodePoR ==
  /\ pc = "data_por"
  /\ IF PoRMissing(mode, w.data_nodes[i], w.data_nodes_paths[i], w.data_root)
     THEN Halt("AssignmentMissing")
     ELSE /\ Emit(PoREvent(mode, "data node commitment", i, 0, w.data_nodes[i],
                           w.data_nodes_paths[i], w.data_root))
          /\ pc' = "parents_bits"
          /\ UNCHANGED <<i, j, status, locals>>
  /\ UNCHANGED <<inputs, gpi_status, gpi, proof, entry, w>>

\* Mutant: a parent's bits as the decomposition returns them, not padded.
parent_bits_unpadded(val) == field_into_boolean_vec_le(val)

\* One parent's value in bits, padded with constant false up to PadWidth.
padded_parent_bits(val) ==
  LET v == field_into_boolean_vec_le(val)
  IN Collect([k \in 1 .. (IF Len(v) < PadWidth THEN PadWidth ELSE Len(v)) |->
                IF k <= Len(v) THEN v[k] ELSE ConstantBit(FALSE)])

\* "parents to bits"
ParentsBits ==
  /\ pc = "parents_bits"
  /\ IF \E k \in 1 .. Len(w.replica_parents[i]) :
          AssignmentMissing(mode, w.replica_parents[i][k])
     THEN Halt("AssignmentMissing")
     ELSE /\ parents_bits' = [k \in 1 .. Len(w.replica_parents[i]) |->
                                padded_parent_bits(w.replica_parents[i][k])]
          /\ Emit(Ev("parents to bits", i, 0, w.replica_parents[i], <<>>,
                  Len(w.replica_parents[i]), TRUE))
          /\ pc' = "kdf"
          /\ UNCHANGED <<i, j, status, replica_id_bits, key, decoded, expected>>
  /\ UNCHANGED <<inputs, gpi_status, gpi, proof, entry, w>>

\* Mutant: the key is derived from the identity alone.
kdf_without_parents(m, id, parents, degree) ==
  IF m = "prove" /\ AllKnownBits(id) /\ \A k \in 1 .. Len(parents) : AllKnownBits(parents[k])
  THEN Some(Kdf(BitValues(id), <<>>, degree))
  ELSE None

\* kdf(cs, params, replica_id_bits.clone(), parents_bits, degree)
kdf(m, id, parents, degree) ==
  IF m = "prove" /\ AllKnownBits(id) /\ \A k \in 1 .. Len(parents) : AllKnownBits(parents[k])
  THEN Some(Kdf(BitValues(id), Collect([k \in 1 .. Len(parents) |-> BitValues(parents[k])]),
                degree))
  ELSE None

RECURSIVE SumLen(_)
SumLen(ss) == IF ss = <<>> THEN 0 ELSE Len(Head(ss)) + SumLen(Tail(ss))

DeriveKey ==
  /\ pc = "kdf"
  /\ key' = kdf(mode, replica_id_bits, parents_bits, w.degree)
  /\ Emit(Ev("kdf", i, 0, <<>>, <<>>, Len(replica_id_bits) + SumLen(parents_bits), TRUE))
  /\ parents_bits' = <<>>
  /\ pc' = "decode"
  /\ UNCHANGED <<i, j, status, replica_id_bits, decoded, expected>>
  /\ UNCHANGED <<inputs, gpi_status, gpi, proof, entry, w>>

\* sloth::decode(cs, &key, *replica_node, self.sloth_iter)
SlothDecode ==
  /\ pc = "decode"
  /\ IF AssignmentMissing(mode, w.replica_nodes[i])
     THEN Halt("AssignmentMissing")
     ELSE /\ decoded' = IF IsSome(key) /\ IsSome(w.replica_nodes[i])
                        THEN Some(Decode(Unwrap(key), Unwrap(w.replica_nodes[i]),
                                         w.sloth_iter))
                        ELSE None
          /\ Emit(Ev("decode replica node commitment", i, 0, <<key, w.replica_nodes[i]>>, <<>>,
                  w.sloth_iter, TRUE))
          /\ pc' = "expected"
          /\ UNCHANGED <<i, j, status, replica_id_bits, parents_bits, key, expected>>
  /\ UNCHANGED <<inputs, gpi_status, gpi, proof, entry, w>>

\* let expected = AllocatedNum::alloc(cs, || data_node.ok_or_else(..))?
AllocExpected ==
  /\ pc = "expected"
  /\ IF AssignmentMissing(mode, w.data_nodes[i])
     THEN Halt("AssignmentMissing")
     ELSE /\ expected' = Evaluated(mode, w.data_nodes[i])
          /\ Emit(Ev("data node", i, 0, <<w.data_nodes[i]>>, <<>>, 1, TRUE))
          /\ pc' = "enforce"
          /\ UNCHANGED <<i, j, status, replica_id_bits, parents_bits, key, decoded>>
  /\ UNCHANGED <<inputs, gpi_status, gpi, proof, entry, w>>

\* cs.enforce(expected * 1 = decoded), then the next challenge.
EnforceEqual ==
  /\ pc = "enforce"
  /\ Emit(Ev("encrypted matches data_node constraint", i, 0, <<expected, decoded>>, <<>>, 1,
             (IsSome(expected) /\ IsSome(decoded)) => Unwrap(expected) * 1 = Unwrap(decoded)))
  /\ pc' = "loop" /\ i' = i + 1
  /\ UNCHANGED <<j, status, locals>>
  /\ UNCHANGED <<inputs, gpi_status, gpi, proof, entry, w>>

Next ==
  \/ GeneratePublicInputs
  \/ Circuit
  \/ DirectSynthesize
  \/ ReplicaIdBits
  \/ PackReplicaId
  \/ NextChallenge
  \/ ReplicaNodePoR
  \/ ParentPoR
  \/ DataNodePoR
  \/ ParentsBits
  \/ DeriveKey
  \/ SlothDecode
  \/ AllocExpected
  \/ EnforceEqual

Spec == Init /\ [][Next]_vars

\* ------------------------------------------------------------ observations
\* The public inputs the constraint system holds after the constant one.
RECURSIVE InputsOf(_)
InputsOf(evs) == IF evs = <<>> THEN <<>> ELSE Head(evs).inputs \o InputsOf(Tail(evs))

\* TestConstraintSystem::num_inputs: the constant one and every exposed input.
NumInputs == 1 + Len(InputsOf(cs))

\* TestConstraintSystem::is_satisfied
IsSatisfied == \A e \in 1 .. Len(cs) : cs[e].sat

Challenges == 1 .. Len(w.data_nodes)
Synthesized == entry # "none" /\ pc = "halt"
Succeeded == Synthesized /\ status = "Ok"

\* --------------------------------------------------------------------- C1
\* C1: whenever generate_public_inputs returned and synthesize succeeded on
\* the circuit that circuit() built from the honest vanilla proof of the same
\* public inputs and parameters, the two input sequences have the same length
\* and the same element at every position.
C1_GeneratedInputsMatchSynthesized ==
  (Succeeded /\ entry = "circuit" /\ mode = "prove" /\ gpi_status = "returned"
     /\ proof = HonestProof(pub_in, pub_params))
    => /\ Len(gpi) = Len(InputsOf(cs))
       /\ \A x \in 1 .. Len(gpi) : InputsOf(cs)[x] = Some(gpi[x])

\* The same for a single challenge, where the two layouts coincide.
C1_SingleChallengeInputsMatch ==
  (Succeeded /\ entry = "circuit" /\ mode = "prove" /\ gpi_status = "returned"
     /\ Len(pub_in.challenges) = 1)
    => /\ Len(gpi) = Len(InputsOf(cs))
       /\ \A x \in 1 .. Len(gpi) : InputsOf(cs)[x] = Some(gpi[x])

\* --------------------------------------------------------------------- C2
AllKnown(c) ==
  LET known(path) == \A l \in 1 .. Len(path) : IsSome(path[l])
  IN /\ IsSome(c.replica_id) /\ IsSome(c.replica_root) /\ IsSome(c.data_root)
     /\ \A x \in 1 .. Len(c.replica_nodes) : IsSome(c.replica_nodes[x])
     /\ \A x \in 1 .. Len(c.data_nodes) : IsSome(c.data_nodes[x])
     /\ \A x \in 1 .. Len(c.replica_nodes_paths) : known(c.replica_nodes_paths[x])
     /\ \A x \in 1 .. Len(c.data_nodes_paths) : known(c.data_nodes_paths[x])
     /\ \A x \in 1 .. Len(c.replica_parents) :
          \A k \in 1 .. Len(c.replica_parents[x]) : IsSome(c.replica_parents[x][k])
     /\ \A x \in 1 .. Len(c.replica_parents_paths) :
          \A k \in 1 .. Len(c.replica_parents_paths[x]) :
            known(c.replica_parents_paths[x][k])

\* A node value and its path hash up to the root.
Authenticates(value, path, root) ==
  PathRoot(Unwrap(value), Collect([l \in 1 .. Len(path) |-> Unwrap(path[l])]), 1)
    = Unwrap(root)

\* Decoding challenge c's replica node under the key of the replica identity,
\* the parents in order and the degree gives its data node.
DecodesToData(c) ==
  LET parents == Collect([k \in 1 .. Len(w.replica_parents[c]) |->
                            FrBits(Unwrap(w.replica_parents[c][k]))])
      k0 == Kdf(FrBits(Unwrap(w.replica_id)), parents, w.degree)
  IN Decode(k0, Unwrap(w.replica_nodes[c]), w.sloth_iter) = Unwrap(w.data_nodes[c])

ChallengeHolds(c) ==
  /\ Authenticates(w.replica_nodes[c], w.replica_nodes_paths[c], w.replica_root)
  /\ \A k \in 1 .. Len(w.replica_parents[c]) :
       Authenticates(w.replica_parents[c][k], w.replica_parents_paths[c][k],
                     w.replica_root)
  /\ Authenticates(w.data_nodes[c], w.data_nodes_paths[c], w.data_root)
  /\ DecodesToData(c)

\* C2: with every witness value known, the constraint system a successful
\* synthesis emitted is satisfied exactly when every challenge's replica node
\* and parents authenticate against replica_root, its data node against
\* data_root, and the decoded replica node equals the data node; the circuit
\* of an honest replicate + prove run is satisfied.
C2_SatisfiedIffChallengesHold ==
  (Succeeded /\ mode = "prove" /\ AllKnown(w))
    => /\ IsSatisfied <=> \A c \in Challenges : ChallengeHolds(c)
       /\ (entry = "circuit" /\ proof = HonestProof(pub_in, pub_params)) => IsSatisfied

C2_Witness ==
  /\ Succeeded /\ mode = "prove" /\ AllKnown(w) /\ entry = "circuit"
  /\ Len(w.data_nodes) = 2 /\ w.sloth_iter = 2 /\ IsSatisfied
  /\ proof = HonestProof(pub_in, pub_params)

\* An unsatisfied constraint system is reached as well.
C2_NeverUnsatisfied == (Succeeded /\ mode = "prove" /\ AllKnown(w)) => IsSatisfied

\* --------------------------------------------------------------------- C3
PoRSteps == {"replica_node merkle proof", "replica parent", "data node commitment"}
PoREvents == {e \in 1 .. Len(cs) : cs[e].step \in PoRSteps}
PackedIdCount == Cardinality({e \in 1 .. Len(cs) : cs[e].step = "replica_id"})
                   * ((CAPACITY + CAPACITY - 1) \div CAPACITY)

C3_WitnessSmallTree ==
  /\ Succeeded /\ w.degree = FixtureDegree /\ Len(w.data_nodes) = 1
  /\ Len(w.replica_nodes_paths[1]) = graph_height(FixtureNodes)
  /\ NumInputs = 10

\* --------------------------------------------------------------------- C4
\* C4: once generate_public_inputs has run, it has panicked and returned no
\* element if tau was present, and has returned if tau was absent.
C4_TauPresentAborts ==
  pc # "start" =>
    /\ IsSome(pub_in.tau) => (gpi_status = "panic" /\ gpi = <<>> /\ pc = "halt")
    /\ ~IsSome(pub_in.tau) => gpi_status = "returned"

C4_Witness == IsSome(pub_in.tau) /\ gpi_status = "panic" /\ Len(pub_in.challenges) = 2

\* --------------------------------------------------------------------- C5
PathLenMismatch(c) == Len(w.data_nodes_paths[c]) # Len(w.replica_nodes_paths[c])

LastStep == IF cs = <<>> THEN "none" ELSE cs[Len(cs)].step

\* C5: if challenge c's replica path and data path differ in length, nothing
\* of challenge c is ever emitted and synthesis never gets past c; once the
\* loop reaches c it has panicked on the assertion (no SynthesisError, no
\* success), with the constraint system ending where challenge c - 1 (or the
\* packing of the replica identity) left it.
C5_PathLengthMismatchAborts ==
  entry # "none" =>
    \A c \in Challenges :
      PathLenMismatch(c) =>
        /\ \A e \in 1 .. Len(cs) : cs[e].ch # c
        /\ i <= c
        /\ (i = c /\ pc # "loop") =>
             /\ pc = "halt" /\ status = "panic_assert"
             /\ LastStep = (IF c = 1 THEN "replica_id"
                            ELSE "encrypted matches data_node constraint")
             /\ cs[Len(cs)].ch = c - 1

C5_Witness ==
  /\ status = "panic_assert" /\ i = 2 /\ PathLenMismatch(2)
  /\ \E e \in 1 .. Len(cs) : cs[e].ch = 1

\* --------------------------------------------------------------------- C6
\* Challenge c's parent vectors do not fit the degree or the replica path.
ParentShapeMismatch(c) ==
  \/ Len(w.replica_parents[c]) # w.degree
  \/ Len(w.replica_parents_paths[c]) # Len(w.replica_parents[c])
  \/ \E k \in 1 .. Len(w.replica_parents_paths[c]) :
       Len(w.replica_parents_paths[c][k]) # Len(w.replica_nodes_paths[c])

\* C6: if challenge c's parent values, parent paths and degree do not fit
\* together, nothing of challenge c is ever emitted and synthesis does not
\* succeed.
C6_ParentMismatchAborts ==
  entry # "none" =>
    \A c \in Challenges :
      ParentShapeMismatch(c) =>
        /\ \A e \in 1 .. Len(cs) : cs[e].ch # c
        /\ ~Succeeded

\* The second half alone: synthesis does not succeed on such a witness.
C6_ParentMismatchNeverSucceeds ==
  entry # "none" =>
    \A c \in Challenges : ParentShapeMismatch(c) => ~Succeeded

\* --------------------------------------------------------------------- C7
UnknownDataNodes == {c \in Challenges : ~IsSome(w.data_nodes[c])}
FirstUnknownDataNode == CHOOSE c \in UnknownDataNodes : \A d \in UnknownDataNodes : c <= d

\* C7: on a witness with an unknown data node, a synthesis that evaluates
\* values ends in AssignmentMissing with no equality constraint for a challenge
\* whose data node is unknown and nothing for later challenges; a
\* structure-only synthesis of the same witness succeeds.
C7_UnknownDataNode ==
  (Synthesized /\ UnknownDataNodes # {}) =>
    /\ mode = "prove" =>
         /\ status = "AssignmentMissing"
         /\ \A e \in 1 .. Len(cs) :
              /\ cs[e].ch <= FirstUnknownDataNode
              /\ cs[e].ch \in UnknownDataNodes
                   => cs[e].step # "encrypted matches data_node constraint"
    /\ mode = "setup" => status = "Ok"

\* The first half alone.
C7_ProveEndsInAssignmentMissing ==
  (Synthesized /\ UnknownDataNodes # {} /\ mode = "prove") =>
    /\ status = "AssignmentMissing"
    /\ \A e \in 1 .. Len(cs) :
         /\ cs[e].ch <= FirstUnknownDataNode
         /\ cs[e].ch \in UnknownDataNodes
              => cs[e].step # "encrypted matches data_node constraint"

\* --------------------------------------------------------------------- C8
Shape(e) == [step |-> e.step, ch |-> e.ch, k |-> e.k, size |-> e.size,
             ninputs |-> Len(e.inputs)]
ShapeOf(evs) == Collect([e \in 1 .. Len(evs) |-> Shape(evs[e])])

Sh(step, ch, k, size, n) == [step |-> step, ch |-> ch, k |-> k, size |-> size, ninputs |-> n]

\* What the synthesis of a circuit of c's shape with every value known emits.
ChallengeShape(c, x) ==
  LET np == Len(c.replica_parents[x])
  IN <<Sh("replica_node merkle proof", x, 0, Len(c.replica_nodes_paths[x]), 1)>>
     \o Collect([k \in 1 .. np |->
                   Sh("replica parent", x, k, Len(c.replica_parents_paths[x][k]), 1)])
     \o <<Sh("data node commitment", x, 0, Len(c.data_nodes_paths[x]), 1),
          Sh("parents to bits", x, 0, np, 0),
          Sh("kdf", x, 0, 8 * FrBytes + np * PadWidth, 0),
          Sh("decode replica node commitment", x, 0, c.sloth_iter, 0),
          Sh("data node", x, 0, 1, 0),
          Sh("encrypted matches data_node constraint", x, 0, 1, 0)>>

KnownShape(c) ==
  <<Sh("replica_id bits", 0, 0, 8 * FrBytes, 0), Sh("replica_id", 0, 0, CAPACITY, 1)>>
    \o Concat(Collect([x \in 1 .. Len(c.data_nodes) |-> ChallengeShape(c, x)]))

\* Every successful synthesis of a circuit with all values known emits
\* KnownShape, whether or not the constraint system evaluates values.
C8_KnownRunsEmitKnownShape ==
  (Succeeded /\ AllKnown(w))
    => ShapeOf(cs) = KnownShape(w)

\* C8: a structure-only synthesis of a circuit with every value unknown
\* succeeds and emits what the circuit of the same shape with every value
\* known emits.
C8_UnknownSameTopology ==
  (Synthesized /\ mode = "setup" /\ w = AllUnknown(w)
     /\ \A c \in Challenges : ~ParentShapeMismatch(c) /\ ~PathLenMismatch(c))
    => /\ status = "Ok"
       /\ ShapeOf(cs) = KnownShape(w)

\* The same where lambda is the bit length of the identity's representation.
C8_UnknownSameTopologyAtFullLambda ==
  (Synthesized /\ mode = "setup" /\ w = AllUnknown(w) /\ w.lambda = LambdaBits
     /\ \A c \in Challenges : ~ParentShapeMismatch(c) /\ ~PathLenMismatch(c))
    => /\ status = "Ok"
       /\ ShapeOf(cs) = KnownShape(w)

\* --------------------------------------------------------------------- C9
\* C9: the circuit built by circuit() carries, per challenge and in the
\* proof's order, the values and paths of the vanilla proof, all known; its
\* roots are those of the first challenge's proofs; lambda, sloth_iter, degree
\* and replica_id are those of the public parameters and inputs.
C9_CircuitCarriesProof ==
  entry = "circuit" =>
    /\ Len(w.replica_nodes) = Len(proof.replica_nodes)
    /\ Len(w.replica_nodes_paths) = Len(proof.replica_nodes)
    /\ Len(w.replica_parents) = Len(proof.replica_parents)
    /\ Len(w.replica_parents_paths) = Len(proof.replica_parents)
    /\ Len(w.data_nodes) = Len(proof.nodes)
    /\ Len(w.data_nodes_paths) = Len(proof.nodes)
    /\ Len(w.data_nodes) = Len(pub_in.challenges)
    /\ \A c \in 1 .. Len(proof.replica_nodes) :
         /\ w.replica_nodes[c] = Some(proof.replica_nodes[c].data)
         /\ Len(w.replica_nodes_paths[c]) = Len(proof.replica_nodes[c].proof.path)
         /\ \A l \in 1 .. Len(w.replica_nodes_paths[c]) :
              w.replica_nodes_paths[c][l] = Some(proof.replica_nodes[c].proof.path[l])
    /\ \A c \in 1 .. Len(proof.replica_parents) :
         /\ Len(w.replica_parents[c]) = Len(proof.replica_parents[c])
         /\ Len(w.replica_parents_paths[c]) = Len(proof.replica_parents[c])
         /\ \A k \in 1 .. Len(proof.replica_parents[c]) :
              /\ w.replica_parents[c][k] = Some(proof.replica_parents[c][k][2].data)
              /\ Len(w.replica_parents_paths[c][k])
                   = Len(proof.replica_parents[c][k][2].proof.path)
              /\ \A l \in 1 .. Len(w.replica_parents_paths[c][k]) :
                   w.replica_parents_paths[c][k][l]
                     = Some(proof.replica_parents[c][k][2].proof.path[l])
    /\ \A c \in 1 .. Len(proof.nodes) :
         /\ w.data_nodes[c] = Some(proof.nodes[c].data)
         /\ Len(w.data_nodes_paths[c]) = Len(proof.nodes[c].proof.path)
         /\ \A l \in 1 .. Len(w.data_nodes_paths[c]) :
              w.data_nodes_paths[c][l] = Some(proof.nodes[c].proof.path[l])
    /\ w.replica_root = Some(proof.replica_nodes[1].proof.root)
    /\ w.data_root = Some(proof.nodes[1].proof.root)
    /\ w.lambda = pub_params.lambda
    /\ w.sloth_iter = pub_params.sloth_iter
    /\ w.degree = pub_params.graph.degree
    /\ w.replica_id = Some(pub_in.replica_id)
    /\ AllKnown(w)

C9_Witness ==
  /\ entry = "circuit" /\ Len(proof.nodes) = 2
  /\ proof.replica_nodes[2].proof.root # proof.replica_nodes[1].proof.root
  /\ proof.nodes[2].proof.root # proof.nodes[1].proof.root
  /\ w.replica_root = Some(proof.replica_nodes[1].proof.root)

\* -------------------------------------------------------------------- C10
Step(e) == [step |-> e.step, ch |-> e.ch, k |-> e.k]
StepsOf(evs) == Collect([e \in 1 .. Len(evs) |-> Step(evs[e])])
St(step, ch, k) == [step |-> step, ch |-> ch, k |-> k]

ChallengeSteps(x) ==
  <<St("replica_node merkle proof", x, 0)>>
    \o Collect([k \in 1 .. Len(w.replica_parents[x]) |-> St("replica parent", x, k)])
    \o <<St("data node commitment", x, 0), St("parents to bits", x, 0), St("kdf", x, 0),
         St("decode replica node commitment", x, 0), St("data node", x, 0),
         St("encrypted matches data_node constraint", x, 0)>>

\* C10: a successful synthesis emitted the identity's bits and their packing
\* once, first, and then per challenge in index order: the replica node's
\* membership against replica_root, each parent's in parent order against
\* replica_root, the data node's against data_root, the parents' bits, the
\* key, the decoding of the replica node, and one equality constraint whose
\* expected side is the data node.
C10_StepOrder ==
  Succeeded =>
    /\ StepsOf(cs) = <<St("replica_id bits", 0, 0), St("replica_id", 0, 0)>>
                       \o Concat(Collect([x \in 1 .. Len(w.data_nodes) |->
                                            ChallengeSteps(x)]))
    /\ \A e \in 1 .. Len(cs) :
         LET ev == cs[e] IN
         /\ ev.step = "replica_node merkle proof"
              => ev.args = <<w.replica_nodes[ev.ch], w.replica_root>>
         /\ ev.step = "replica parent"
              => ev.args = <<w.replica_parents[ev.ch][ev.k], w.replica_root>>
         /\ ev.step = "data node commitment"
              => ev.args = <<w.data_nodes[ev.ch], w.data_root>>
         /\ ev.step = "parents to bits" => ev.args = w.replica_parents[ev.ch]
         /\ ev.step = "decode replica node commitment"
              => ev.args[2] = w.replica_nodes[ev.ch]
         /\ ev.step = "encrypted matches data_node constraint"
              => ev.args[1] = Evaluated(mode, w.data_nodes[ev.ch])

C10_Witness ==
  /\ Succeeded /\ Len(w.data_nodes) = 2 /\ w.degree = 2
  /\ w.replica_root # w.data_root
  /\ Cardinality({e \in 1 .. Len(cs) : cs[e].step = "replica_id"}) = 1

\* -------------------------------------------------------------------- C11
\* The direction bits of a node's path, packed: what a Merkle-membership
\* contributes when no commitment is given.
PathContribution(node) ==
  compute_multipacking(challenge_into_auth_path_bits(node, pub_params.graph.nodes))

PackedIdentity == compute_multipacking(SubSeq(FrBits(pub_in.replica_id), 1, CAPACITY))

\* The position in the output where the block of challenge n starts (less one).
RECURSIVE BlockOffset(_)
BlockOffset(n) ==
  IF n <= 1 THEN 0
  ELSE BlockOffset(n - 1) + Len(PackedIdentity)
         + Len(PathContribution(pub_in.challenges[n - 1]))
             * (Len(Parents(pub_params.graph, pub_in.challenges[n - 1])) + 2)

\* C11: what generate_public_inputs returned is, challenge after challenge in
\* the order given, one block made of the packed replica identity, the path
\* contribution of the challenged node, that of each parent in the order
\* graph.parents returns them, and that of the challenged node again; nothing
\* else (no commitment, no witness value) occurs in it, so it is determined by
\* the replica identity, the challenges and the graph.
C11_PublicInputLayout ==
  gpi_status = "returned" =>
    LET ch == pub_in.challenges
        n == Len(ch)
        At(off, seq) == SubSeq(gpi, off + 1, off + Len(seq)) = seq
    IN /\ Len(gpi) = BlockOffset(n + 1)
       /\ \A x \in 1 .. n :
            LET parents == Parents(pub_params.graph, ch[x])
                id == Len(PackedIdentity)
                one == Len(PathContribution(ch[x]))
                off == BlockOffset(x)
            IN /\ At(off, PackedIdentity)
               /\ At(off + id, PathContribution(ch[x]))
               /\ \A k \in 1 .. Len(parents) :
                    At(off + id + k * one, PathContribution(parents[k]))
               /\ At(off + id + (Len(parents) + 1) * one, PathContribution(ch[x]))

\* Two challenges, the second with two different parents.
C11_Witness ==
  /\ gpi_status = "returned" /\ Len(pub_in.challenges) = 2
  /\ pub_params.graph.degree = 2
  /\ LET parents == Parents(pub_params.graph, pub_in.challenges[2])
     IN parents[1] # parents[2]
  /\ Len(gpi) = 10 /\ gpi[1] = gpi[6] /\ gpi[7] = gpi[10]

====
